---- MODULE Spec2Model ----
(***************************************************************************)
(* The Windjammer Python SDK application object                            *)
(* (sdks/python/windjammer_sdk/app.py): the three system lists, the        *)
(* run-state flag, the registration operations, quit(), and run() with its *)
(* three for loops, each iterating the live list and calling one system at *)
(* a time inside try/except Exception.                                     *)
(*                                                                         *)
(* A system is an arbitrary callable.  The callables of the model are      *)
(* named by what their body does: "ok" returns, "boom" raises an           *)
(* Exception, "quitter" calls app.quit() and returns.  Every callable      *)
(* evaluates app.is_running() when it is entered.  A call and its return   *)
(* (or raise) are separate steps, so that "completes before" is a          *)
(* statement about the order of steps.                                     *)
(***************************************************************************)
EXTENDS Integers, Sequences, FiniteSets

\* Bound: registrations made on one App object, over its three lists.
MaxSystems == 3
\* Bound: run() invocations made on one App object.
MaxRuns == 2
\* Bound: registrations made on one App object whose systems register
\* systems while run() is executing.
MaxRegistering == 4

VARIABLES
    _systems,            \* App._systems: the update list
    _startup_systems,    \* App._startup_systems
    _shutdown_systems,   \* App._shutdown_systems
    _running,            \* App._running
    pc,                  \* where run() stands: "idle" (not in run()) or the loop it is in
    it,                  \* the list iterator of the current for loop: items consumed
    cur,                 \* the system being executed, or NoSystem
    log,                 \* what the current (or last) run() did, in order
    atRun,               \* the three list lengths when the current run() was invoked
    runs,                \* run() invocations on this App so far
    lastOp,              \* the last operation the program applied to the App
    quitIdle,            \* the program has called quit() on this App outside run()
    ret,                 \* what the call made in the last step returned or raised
    stderr,              \* the diagnostics the current (or last) run() printed to sys.stderr
    time,                \* a Time object of the program
    \* The World (entity registry and component store)
    slots,               \* per slot index: its generation and whether an entity lives in it
    comps,               \* per component kind and slot index: the value stored, or Empty
    issued,              \* the entity ids spawn has returned
    despawned,           \* the entity ids a despawn has destroyed
    wret,                \* the result of the last World operation
    \* The FFI layer and the math types
    _lib,                \* ffi._lib: the loaded native library, or None (mock mode)
    last_error,          \* the engine's pending error string, or NULL
    objs,                \* the math objects the program holds, by variable name
    mret,                \* what the last SDK call returned or raised
    \* Transform objects and the Vec3 objects they refer to
    heap,                \* the Vec3 objects that are referred to, in order of creation
    held,                \* the Vec3 the program constructed itself (a reference), or NoRef
    trs                  \* the Transform objects the program holds, by variable name

appVars == <<_systems, _startup_systems, _shutdown_systems, _running,
             pc, it, cur, log, atRun, runs, lastOp, quitIdle, ret, stderr, time>>

worldVars == <<slots, comps, issued, despawned, wret>>

sdkVars == <<_lib, last_error, objs, mret>>

transformVars == <<heap, held, trs>>

vars == <<appVars, worldVars, sdkVars, transformVars>>

Callables == {"ok", "boom", "quitter"}

Phases == {"startup", "update", "shutdown"}

NoSystem == [fn |-> "none", idx |-> 0, step |-> 0]

\* The fields App.__init__ sets.
AppInit ==
    [systems |-> <<>>, startup |-> <<>>, shutdown |-> <<>>, running |-> FALSE]

\* The fields Time.__init__ sets; seconds are counted in milliseconds.
TimeInit == [delta_seconds |-> 16, total_seconds |-> 0, frame_count |-> 0]

\* The list a loop of run() iterates.
PhaseList(p) ==
    CASE p = "startup"  -> _startup_systems
      [] p = "update"   -> _systems
      [] p = "shutdown" -> _shutdown_systems

NoLengths == [startup |-> 0, update |-> 0, shutdown |-> 0]

Lengths ==
    [startup  |-> Len(_startup_systems),
     update   |-> Len(_systems),
     shutdown |-> Len(_shutdown_systems)]

Registered == Len(_systems) + Len(_startup_systems) + Len(_shutdown_systems)

\* Bound: slot indices of the entity registry.
MaxSlots == 2
\* Bound: the generation a slot can reach.
MaxGen == 2

Kinds == {"Transform", "Sprite"}

CompVals == {1}

Empty == 0

SlotIds == 1..MaxSlots

NoId == [slot |-> 0, generation |-> 0]

\* The ids a program can hold: those spawn has returned, live or stale.
EntityIds == issued

\* What the last World operation answered: its status, the Option value of
\* get and insert, and the id it was about.
Result(o, st, v, e) == [op |-> o, status |-> st, value |-> v, id |-> e]

\* World.new(): no slot allocated, no component stored.
WorldInit ==
    /\ slots = <<>>
    /\ comps = [k \in Kinds |-> [s \in SlotIds |-> Empty]]
    /\ issued = {}
    /\ despawned = {}
    /\ wret = Result("none", "none", Empty, NoId)

\* ffi.py: _lib is the CDLL that was loaded, or None when loading failed.
Libs == {"native", "None"}

\* wj_get_last_error() with restype c_char_p: NULL comes back as None.
NoError == "NULL"

\* The error strings the engine leaves pending ("a descriptive error string").
Messages == {"engine failure", "out of memory"}

\* The variables of the program that hold math objects.
Names == {"a", "b"}

Classes == {"Vec2", "Vec3", "Color"}

\* The components of each class, in the order of the constructor's parameters.
Fields ==
    [Vec2 |-> <<"x", "y">>, Vec3 |-> <<"x", "y", "z">>, Color |-> <<"r", "g", "b", "a">>]

\* Numbers.  A Python float carries more precision than the c_float fields
\* of a handle (ffi.py: WjVec2, WjVec3, WjColor).  Numbers are counted in
\* steps of which a c_float holds the even counts only: Whole(k) is the
\* integer k, and an odd count is a float, such as 0.1, that c_float rounds.
Whole(k) == 2 * k

Exact(v) == v % 2 = 0

\* The value a c_float field holds after v was assigned to it.
c_float_identity(v) == v

c_float(v) == 2 * ((v + 1) \div 2)

\* Component values passed to constructors and setters: 0.0, a float that
\* single precision cannot hold, and 1.0.
Scalars == {Whole(0), Whole(0) + 1, Whole(1)}

\* The struct a handle is: every argument converted to its c_float field.
Handle(c, args) == [cls |-> c, c |-> [i \in DOMAIN args |-> c_float(args[i])]]

\* Scalars a vector is multiplied or divided by: the Python integers 0, 1, 2.
Factors == {0, 1, 2}

NoObject == [cls |-> "None", c |-> <<>>]

NoVersion == <<>>

\* What an SDK call was and answered: the exception it raised and its
\* message, the variable it was applied to, the object or version tuple or
\* bool it returned, and its arguments (a component name and a number, a
\* second variable, or the class and components asked of a constructor).
Answer(o, x, m, n, v, ver) ==
    [op |-> o, exc |-> x, msg |-> m, target |-> n, value |-> v, version |-> ver,
     field |-> "none", arg |-> 0, other |-> "none", bool |-> "none",
     asked |-> NoObject]

Returned(o, n, v) == Answer(o, "none", "", n, v, NoVersion)

Raised_(o, x, m, n) == Answer(o, x, m, n, NoObject, NoVersion)

\* The SDK before the program has called it.
SdkFresh ==
    /\ last_error = NoError
    /\ objs = [n \in Names |-> NoObject]
    /\ mret = Returned("none", "none", NoObject)

\* The variables of the program that hold Transform objects.
TransformNames == {"t", "u"}

\* The attributes of a Transform, in the order __init__ assigns them.
Attributes == <<"position", "rotation", "scale">>

\* A reference to no object (None).
NoRef == 0

NoTransform == [position |-> NoRef, rotation |-> NoRef, scale |-> NoRef, defaults |-> FALSE]

\* No Vec3 and no Transform constructed yet.
NoTransforms ==
    /\ heap = <<>>
    /\ held = NoRef
    /\ trs = [t \in TransformNames |-> NoTransform]

\* App(): the object App.__init__ leaves, in a program that has not run it.
FreshApp ==
    /\ _systems = AppInit.systems
    /\ _startup_systems = AppInit.startup
    /\ _shutdown_systems = AppInit.shutdown
    /\ _running = AppInit.running
    /\ pc = "idle"
    /\ it = 0
    /\ cur = NoSystem
    /\ log = <<>>
    /\ atRun = NoLengths
    /\ runs = 0
    /\ lastOp = "new"
    /\ quitIdle = FALSE
    /\ ret = "none"
    /\ stderr = <<>>
    /\ time = TimeInit

\* The native library is not built in this repository: ffi.py falls back to
\* mock mode.
Init ==
    /\ FreshApp
    /\ WorldInit
    /\ SdkFresh
    /\ NoTransforms
    /\ _lib = "None"

\* The program's own calls are made while no run() is in progress: the SDK is
\* single-threaded, and inside run() only a system can call the App.
AtTopLevel == pc = "idle" /\ cur = NoSystem

\* What no operation of App touches.
Elsewhere == UNCHANGED <<time, worldVars, sdkVars, transformVars>>

\* A step whose result the program does not look at.
Silent == ret' = "none" /\ Elsewhere

RunIdle == UNCHANGED <<pc, it, cur, log, atRun, runs, stderr>>

Registers == RunIdle /\ UNCHANGED quitIdle

\* Mutant: the lists are class attributes, shared by every App.
New_sharedLists ==
    /\ AtTopLevel
    /\ _running' = AppInit.running
    /\ log' = <<>>
    /\ atRun' = NoLengths
    /\ runs' = 0
    /\ lastOp' = "new"
    /\ quitIdle' = FALSE
    /\ stderr' = <<>>
    /\ UNCHANGED <<_systems, _startup_systems, _shutdown_systems, pc, it, cur>>
    /\ Silent

\* App(): the program constructs a fresh App and goes on with that one.
New ==
    /\ AtTopLevel
    /\ _systems' = AppInit.systems
    /\ _startup_systems' = AppInit.startup
    /\ _shutdown_systems' = AppInit.shutdown
    /\ _running' = AppInit.running
    /\ log' = <<>>
    /\ atRun' = NoLengths
    /\ runs' = 0
    /\ lastOp' = "new"
    /\ quitIdle' = FALSE
    /\ stderr' = <<>>
    /\ UNCHANGED <<pc, it, cur>>
    /\ Silent

\* Mutant: list.insert(0, f)
Append_atFront(list, f) == <<f>> \o list

\* list.append
Append_(list, f) == Append(list, f)

\* What each registration method does to the fields of the App.
system(f) ==
    /\ _systems' = Append_(_systems, f)
    /\ UNCHANGED <<_startup_systems, _shutdown_systems, _running>>

startup(f) ==
    /\ _startup_systems' = Append_(_startup_systems, f)
    /\ UNCHANGED <<_systems, _shutdown_systems, _running>>

shutdown(f) ==
    /\ _shutdown_systems' = Append_(_shutdown_systems, f)
    /\ UNCHANGED <<_systems, _startup_systems, _running>>

add_system(f) ==
    /\ _systems' = Append_(_systems, f)
    /\ UNCHANGED <<_startup_systems, _shutdown_systems, _running>>

add_startup_system(f) ==
    /\ _startup_systems' = Append_(_startup_systems, f)
    /\ UNCHANGED <<_systems, _shutdown_systems, _running>>

\* @app.system
System ==
    /\ AtTopLevel /\ Registered < MaxSystems
    /\ \E f \in Callables : system(f)
    /\ lastOp' = "system"
    /\ Registers
    /\ Silent

\* @app.startup
Startup ==
    /\ AtTopLevel /\ Registered < MaxSystems
    /\ \E f \in Callables : startup(f)
    /\ lastOp' = "startup"
    /\ Registers
    /\ Silent

\* @app.shutdown
Shutdown ==
    /\ AtTopLevel /\ Registered < MaxSystems
    /\ \E f \in Callables : shutdown(f)
    /\ lastOp' = "shutdown"
    /\ Registers
    /\ Silent

\* app.add_system(f)
AddSystem ==
    /\ AtTopLevel /\ Registered < MaxSystems
    /\ \E f \in Callables : add_system(f)
    /\ lastOp' = "add_system"
    /\ Registers
    /\ Silent

\* app.add_startup_system(f)
AddStartupSystem ==
    /\ AtTopLevel /\ Registered < MaxSystems
    /\ \E f \in Callables : add_startup_system(f)
    /\ lastOp' = "add_startup_system"
    /\ Registers
    /\ Silent

\* app.add_shutdown_system(f): App defines no such method, the attribute
\* lookup raises AttributeError and nothing is registered.
AddShutdownSystem ==
    /\ AtTopLevel
    /\ lastOp' = "add_shutdown_system"
    /\ ret' = "AttributeError"
    /\ UNCHANGED <<_systems, _startup_systems, _shutdown_systems, _running>>
    /\ Registers
    /\ Elsewhere

\* Mutant: quit() flips the flag.
Quit_toggles ==
    /\ AtTopLevel
    /\ _running' = ~_running
    /\ lastOp' = "quit"
    /\ quitIdle' = TRUE
    /\ UNCHANGED <<_systems, _startup_systems, _shutdown_systems>>
    /\ RunIdle
    /\ Silent

\* A quit() that also forgets the update systems.
Quit_clearsSystems ==
    /\ AtTopLevel
    /\ _running' = FALSE
    /\ _systems' = <<>>
    /\ lastOp' = "quit"
    /\ quitIdle' = TRUE
    /\ UNCHANGED <<_startup_systems, _shutdown_systems>>
    /\ RunIdle
    /\ Silent

\* app.quit(), called by the program outside run()
Quit ==
    /\ AtTopLevel
    /\ _running' = FALSE
    /\ lastOp' = "quit"
    /\ quitIdle' = TRUE
    /\ UNCHANGED <<_systems, _startup_systems, _shutdown_systems>>
    /\ RunIdle
    /\ Silent

Lists == <<_systems, _startup_systems, _shutdown_systems>>

\* A bool as the program sees it.
BoolStr(b) == IF b THEN "True" ELSE "False"

\* Mutant: is_running() reads the flag and resets it.
IsRunning_clears ==
    /\ AtTopLevel \/ cur # NoSystem
    /\ ret' = BoolStr(_running)
    /\ _running' = FALSE
    /\ lastOp' = IF AtTopLevel THEN "is_running" ELSE lastOp
    /\ UNCHANGED <<Lists, quitIdle>>
    /\ RunIdle
    /\ Elsewhere

\* app.is_running(), called by the program outside run() or by the body of
\* the system that is being executed.
IsRunning ==
    /\ AtTopLevel \/ cur # NoSystem
    /\ ret' = BoolStr(_running)
    /\ lastOp' = IF AtTopLevel THEN "is_running" ELSE lastOp
    /\ UNCHANGED <<Lists, _running, quitIdle>>
    /\ RunIdle
    /\ Elsewhere

\* One entry of the log: a print of run(), or what a system did.  Every entry
\* carries what is_running() returns at that moment.
Event(ev, p, i, f) ==
    [ev |-> ev, phase |-> p, idx |-> i, fn |-> f, running |-> _running,
     into |-> "none", at |-> 0]

\* app.run() is entered: the banner is printed, the startup loop begins.
RunBegin ==
    /\ AtTopLevel /\ runs < MaxRuns
    /\ pc' = "startup"
    /\ it' = 0
    /\ log' = <<Event("banner", "startup", 0, "none")>>
    /\ atRun' = Lengths
    /\ runs' = runs + 1
    /\ lastOp' = "run"
    /\ stderr' = <<>>
    /\ UNCHANGED <<Lists, _running, cur, quitIdle>>
    /\ Silent

\* The position the list iterator yields after n items were consumed.
IterItem_reversed(p, n) == Len(PhaseList(p)) - n

IterItem(p, n) == n + 1

\* The for loop's test: the iterator of the live list has another item.
LoopContinues_whileRunning(p) ==
    /\ it < Len(PhaseList(p))
    /\ p = "update" => _running

LoopContinues_skipsLast(p) == it + 1 < Len(PhaseList(p))

\* A loop over a copy of the list taken when run() was entered.
LoopContinues_snapshot(p) == it < atRun[p]

LoopContinues(p) == it < Len(PhaseList(p))

\* `for system in <list>: system()`: the iterator yields the next item of the
\* live list and the system is called.
CallNext ==
    /\ pc \in Phases /\ cur = NoSystem
    /\ LoopContinues(pc)
    /\ LET i == IterItem(pc, it)
           f == PhaseList(pc)[i]
       IN  /\ cur' = [fn |-> f, idx |-> i, step |-> 0]
           /\ log' = Append(log, Event("call", pc, i, f))
    /\ it' = it + 1
    /\ UNCHANGED <<Lists, _running, pc, atRun, runs, lastOp, quitIdle, stderr>>
    /\ Silent

\* A system's body calls app.quit().
SystemQuits ==
    /\ cur.fn = "quitter" /\ cur.step = 0
    /\ _running' = FALSE
    /\ cur' = [cur EXCEPT !.step = 1]
    /\ log' = Append(log, Event("quit", pc, cur.idx, cur.fn))
    /\ UNCHANGED <<Lists, pc, it, atRun, runs, lastOp, quitIdle, stderr>>
    /\ Silent

\* The body of the system being executed has nothing left to do: "ok" does
\* nothing, "quitter" has called quit(), "registrar" has registered a system
\* (it registers one unless the App already has MaxRegistering of them).
BodyDone ==
    \/ cur.fn = "ok"
    \/ cur.fn = "quitter" /\ cur.step = 1
    \/ cur.fn = "registrar" /\ (cur.step = 1 \/ Registered >= MaxRegistering)

\* A system returns.
SystemReturns ==
    /\ BodyDone
    /\ cur' = NoSystem
    /\ log' = Append(log, Event("return", pc, cur.idx, cur.fn))
    /\ UNCHANGED <<Lists, _running, pc, it, atRun, runs, lastOp, quitIdle, stderr>>
    /\ Silent

\* str(e) of the Exception the body of a callable raises.
ErrorOf(f) ==
    CASE f = "boom" -> "something went wrong"
      [] OTHER      -> ""

\* print(f"[Windjammer] Error in <phase> system: {e}", file=sys.stderr)
Diagnostic(p, f) ==
    [text  |-> CASE p = "startup"  -> "[Windjammer] Error in startup system: "
                 [] p = "update"   -> "[Windjammer] Error in system: "
                 [] p = "shutdown" -> "[Windjammer] Error in shutdown system: ",
     error |-> ErrorOf(f)]

\* Mutant: one try around the whole loop, so the rest of the phase is skipped.
SystemRaises_leavesLoop ==
    /\ cur.fn = "boom"
    /\ cur' = NoSystem
    /\ it' = Len(PhaseList(pc))
    /\ log' = Append(log, Event("raise", pc, cur.idx, cur.fn))
    /\ stderr' = Append(stderr, Diagnostic(pc, cur.fn))
    /\ Silent
    /\ UNCHANGED <<Lists, _running, pc, atRun, runs, lastOp, quitIdle>>

\* Mutant: no try at all, the Exception leaves run().
SystemRaises_propagates ==
    /\ cur.fn = "boom"
    /\ cur' = NoSystem
    /\ pc' = "idle"
    /\ it' = 0
    /\ log' = Append(log, Event("raise", pc, cur.idx, cur.fn))
    /\ stderr' = Append(stderr, Diagnostic(pc, cur.fn))
    /\ Silent
    /\ UNCHANGED <<Lists, _running, atRun, runs, lastOp, quitIdle>>

\* A system raises an Exception: the except clause inside the loop prints the
\* diagnostic and the loop goes on with the next item.
SystemRaises ==
    /\ cur.fn = "boom"
    /\ cur' = NoSystem
    /\ log' = Append(log, Event("raise", pc, cur.idx, cur.fn))
    /\ stderr' = Append(stderr, Diagnostic(pc, cur.fn))
    /\ Silent
    /\ UNCHANGED <<Lists, _running, pc, it, atRun, runs, lastOp, quitIdle>>

\* Mutant: the shutdown loop placed before the update loop.
NextPhase_shutdownFirst(p) ==
    CASE p = "startup"  -> "shutdown"
      [] p = "shutdown" -> "update"
      [] p = "update"   -> "idle"

\* run() returns after the update loop.
NextPhase_skipsShutdown(p) ==
    CASE p = "startup"  -> "update"
      [] p = "update"   -> "idle"
      [] p = "shutdown" -> "idle"

\* The loop that follows the loop of phase p in run().
NextPhase(p) ==
    CASE p = "startup"  -> "update"
      [] p = "update"   -> "shutdown"
      [] p = "shutdown" -> "idle"

\* Mutant: run() does not clear the flag on exit.
RunningAfter_neverCleared(p) ==
    CASE p = "startup"  -> TRUE
      [] p = "update"   -> _running
      [] p = "shutdown" -> _running

\* App._running after the loop of phase p is exhausted: set after the startup
\* loop, cleared after the shutdown loop.
RunningAfter(p) ==
    CASE p = "startup"  -> TRUE
      [] p = "update"   -> _running
      [] p = "shutdown" -> FALSE

\* What run() prints after the loop of phase p.
PrintAfter(p) ==
    CASE p = "startup"  -> <<Event("running", "update", 0, "none")>>
      [] p = "update"   -> <<>>
      [] p = "shutdown" -> <<Event("finished", "shutdown", 0, "none")>>

\* The iterator is exhausted: run() goes on after the loop.
LoopDone ==
    /\ pc \in Phases /\ cur = NoSystem
    /\ ~LoopContinues(pc)
    /\ _running' = RunningAfter(pc)
    /\ pc' = NextPhase(pc)
    /\ it' = 0
    /\ log' = log \o PrintAfter(pc)
    /\ UNCHANGED <<Lists, cur, atRun, runs, lastOp, quitIdle, stderr>>
    /\ Silent

Next ==
    \/ New
    \/ System
    \/ Startup
    \/ Shutdown
    \/ AddSystem
    \/ AddStartupSystem
    \/ AddShutdownSystem
    \/ Quit
    \/ IsRunning
    \/ RunBegin
    \/ CallNext
    \/ SystemQuits
    \/ SystemReturns
    \/ SystemRaises
    \/ LoopDone

Spec == Init /\ [][Next]_vars

(***************************************************************************)
(* Programs whose systems register systems while run() is executing.      *)
(***************************************************************************)

\* The callables of such a program: "registrar" is a system whose body
\* registers one system.
Registrable == {"ok", "boom", "registrar"}

\* Registration methods that all append to the update list.
RegisterInto_updateOnly(p, f) == add_system(f)

\* The registration method for the list of phase p, applied to f.
RegisterInto(p, f) ==
    CASE p = "startup"  -> add_startup_system(f)
      [] p = "update"   -> add_system(f)
      [] p = "shutdown" -> shutdown(f)

\* The program registers a system before it calls run().
Register ==
    /\ AtTopLevel /\ Registered < MaxRegistering
    /\ \E p \in Phases : \E f \in Registrable : RegisterInto(p, f)
    /\ lastOp' = "register"
    /\ Registers
    /\ Silent

\* The program calls run(), once.
RunOnce == runs = 0 /\ RunBegin

\* The body of a system calls a registration method of the App.
SystemRegisters ==
    /\ cur.fn = "registrar" /\ cur.step = 0
    /\ Registered < MaxRegistering
    /\ \E p \in Phases : \E f \in Registrable :
         /\ RegisterInto(p, f)
         /\ log' = Append(log, [Event("register", pc, cur.idx, f) EXCEPT
                                   !.into = p, !.at = Len(PhaseList(p)) + 1])
    /\ cur' = [cur EXCEPT !.step = 1]
    /\ UNCHANGED <<pc, it, atRun, runs, lastOp, quitIdle, stderr>>
    /\ Silent

\* What run() and the systems it calls do.
RunSteps ==
    \/ CallNext
    \/ SystemRegisters
    \/ SystemReturns
    \/ SystemRaises
    \/ LoopDone

RegisteringNext ==
    \/ Register
    \/ RunOnce
    \/ RunSteps

RegisteringSpec == Init /\ [][RegisteringNext]_vars

\* Python executes the next statement of run() and of the system it called:
\* a step of run() that can be taken is taken.
FairRegisteringSpec == RegisteringSpec /\ WF_vars(RunSteps)

(***************************************************************************)
(* The World: the entity registry (generational indices) and the component *)
(* store, one container per component kind, keyed by slot.  The program    *)
(* applies one operation at a time, to any id it holds or makes up.        *)
(***************************************************************************)

OutsideWorld == UNCHANGED <<appVars, sdkVars, transformVars>>

is_alive_ignoresGeneration(e) ==
    /\ e.slot \in DOMAIN slots
    /\ slots[e.slot].alive

\* is_alive(id): the slot is allocated, occupied, and of the id's generation.
is_alive(e) ==
    /\ e.slot \in DOMAIN slots
    /\ slots[e.slot].alive
    /\ slots[e.slot].generation = e.generation

FreeSlots == {s \in DOMAIN slots : ~slots[s].alive}

\* spawn(): a freed slot is reused with the generation its despawn left, or
\* else a new slot is allocated; with no slot left, ResourceExhausted.
Spawn ==
    /\ \/ /\ FreeSlots # {}
          /\ \E s \in FreeSlots :
                 /\ slots' = [slots EXCEPT ![s].alive = TRUE]
                 /\ issued' = issued \cup
                        {[slot |-> s, generation |-> slots[s].generation]}
                 /\ wret' = Result("spawn", "ok", Empty,
                        [slot |-> s, generation |-> slots[s].generation])
       \/ /\ FreeSlots = {} /\ Len(slots) < MaxSlots
          /\ slots' = Append(slots, [generation |-> 0, alive |-> TRUE])
          /\ issued' = issued \cup {[slot |-> Len(slots) + 1, generation |-> 0]}
          /\ wret' = Result("spawn", "ok", Empty,
                        [slot |-> Len(slots) + 1, generation |-> 0])
       \/ /\ FreeSlots = {} /\ Len(slots) >= MaxSlots
          /\ wret' = Result("spawn", "ResourceExhausted", Empty, NoId)
          /\ UNCHANGED <<slots, issued>>
    /\ UNCHANGED <<comps, despawned>>
    /\ OutsideWorld

\* The generation a slot gets when its entity is despawned.
GenerationAfterDespawn_kept(g) == g

GenerationAfterDespawn(g) == g + 1

\* The component store after the purge of slot s.
Purge_firstKindOnly(s) ==
    [k \in Kinds |->
        IF k = "Transform" THEN [comps[k] EXCEPT ![s] = Empty] ELSE comps[k]]

Purge(s) == [k \in Kinds |-> [comps[k] EXCEPT ![s] = Empty]]

\* despawn(id): InvalidHandle unless the id is live; else the slot is freed,
\* its generation incremented and its components purged, in one step.
despawn(e) ==
    IF is_alive(e)
    THEN /\ slots[e.slot].generation < MaxGen
         /\ slots' = [slots EXCEPT ![e.slot] =
                [generation |-> GenerationAfterDespawn(@.generation),
                 alive |-> FALSE]]
         /\ comps' = Purge(e.slot)
         /\ despawned' = despawned \cup {e}
         /\ wret' = Result("despawn", "ok", Empty, e)
         /\ UNCHANGED issued
    ELSE /\ wret' = Result("despawn", "InvalidHandle", Empty, e)
         /\ UNCHANGED <<slots, comps, issued, despawned>>

Despawn == (\E e \in EntityIds : despawn(e)) /\ OutsideWorld

\* What get answers for an id that is not live: the failure of a stale
\* handle, and no component.
GetOnDead(e) == Result("get", "InvalidHandle", Empty, e)

\* insert(id, value: K): InvalidHandle on a dead id; else the value replaces
\* the one stored and the previous one is returned.
insert(e, k, v) ==
    IF is_alive(e)
    THEN /\ comps' = [comps EXCEPT ![k][e.slot] = v]
         /\ wret' = Result("insert", "ok", comps[k][e.slot], e)
         /\ UNCHANGED <<slots, issued, despawned>>
    ELSE /\ wret' = Result("insert", "InvalidHandle", Empty, e)
         /\ UNCHANGED <<slots, comps, issued, despawned>>

Insert ==
    /\ \E e \in EntityIds : \E k \in Kinds : \E v \in CompVals : insert(e, k, v)
    /\ OutsideWorld

\* get(id) -> Option<&K>: the component of kind K stored for a live id, or
\* empty when it has none.
get(e, k) ==
    /\ wret' = IF is_alive(e) THEN Result("get", "ok", comps[k][e.slot], e)
                ELSE GetOnDead(e)
    /\ UNCHANGED <<slots, comps, issued, despawned>>

Get == (\E e \in EntityIds : \E k \in Kinds : get(e, k)) /\ OutsideWorld

WorldNext ==
    \/ Spawn
    \/ Despawn
    \/ Insert
    \/ Get

\* A World in the hands of a program that applies one operation at a time.
WorldSpec == Init /\ [][WorldNext]_vars

(***************************************************************************)
(* The FFI layer (ffi.py) and the math types (math.py).  The engine is a   *)
(* native library outside the SDK: a call into it succeeds or leaves an    *)
(* error string pending.                                                   *)
(***************************************************************************)

OutsideSdk == UNCHANGED <<appVars, worldVars, transformVars>>

\* The pending error after a call into the engine: the call fails and leaves
\* a message, or succeeds and leaves the pending error alone or clears it.
AfterEngineCall(error) == {error, NoError} \cup Messages

\* The pending error after a place where the SDK calls the engine if it has
\* one: in mock mode nothing is called.
AfterCall(error) == IF _lib = "None" THEN {error} ELSE AfterEngineCall(error)

\* Python's truth test of the c_char_p result: None and b"" are false.
Truthy(error) == error # NoError /\ error # ""

_check_error_keepsPending(lib, error) ==
    IF lib = "None"
    THEN [raises |-> FALSE, msg |-> "", last_error |-> error]
    ELSE IF Truthy(error)
         THEN [raises |-> TRUE, msg |-> error, last_error |-> error]
         ELSE [raises |-> FALSE, msg |-> "", last_error |-> error]

\* _check_error() with `error` pending in the engine: whether it raises
\* WindjammerError, with which message, and what is pending afterwards.
_check_error(lib, error) ==
    IF lib = "None"
    THEN [raises |-> FALSE, msg |-> "", last_error |-> error]
    ELSE IF Truthy(error)
         THEN [raises |-> TRUE, msg |-> error, last_error |-> NoError]
         ELSE [raises |-> FALSE, msg |-> "", last_error |-> error]

\* The program calls _check_error() itself.
CheckError ==
    LET chk == _check_error(_lib, last_error) IN
    /\ last_error' = chk.last_error
    /\ mret' = IF chk.raises
               THEN Raised_("_check_error", "WindjammerError", chk.msg, "none")
               ELSE Returned("_check_error", "none", NoObject)
    /\ UNCHANGED <<_lib, objs>>
    /\ OutsideSdk

\* The version numbers a loaded engine reports.
EngineVersions == {<<0, 1, 0>>, <<1, 0, 0>>}

\* get_version(): (0, 1, 0) in mock mode, else three engine calls that are
\* not followed by _check_error().
GetVersion ==
    /\ IF _lib = "None"
       THEN /\ mret' = Answer("get_version", "none", "", "none", NoObject, <<0, 1, 0>>)
            /\ UNCHANGED last_error
       ELSE /\ \E v \in EngineVersions :
                 mret' = Answer("get_version", "none", "", "none", NoObject, v)
            /\ last_error' \in AfterEngineCall(last_error)
    /\ UNCHANGED <<_lib, objs>>
    /\ OutsideSdk

Args(c) == [1..Len(Fields[c]) -> Scalars]

\* Vec2.__init__, Vec3.__init__, Color.__init__ with the engine leaving
\* `error` pending after wj_*_new: the handle, unless _check_error() raises.
__init__(c, args, error) ==
    IF _lib # "None"
    THEN LET chk == _check_error(_lib, error) IN
         [raises |-> chk.raises, msg |-> chk.msg, last_error |-> chk.last_error,
          obj |-> IF chk.raises THEN NoObject ELSE Handle(c, args)]
    ELSE [raises |-> FALSE, msg |-> "", last_error |-> last_error,
          obj |-> Handle(c, args)]

\* The program keeps to one class of primitive at a time.
SameClass(c) == \A n \in Names : objs[n] = NoObject \/ objs[n].cls = c

\* n = Vec2(x, y), n = Vec3(x, y, z), n = Color(r, g, b, a)
Construct ==
    /\ \E n \in Names : \E c \in Classes : \E args \in Args(c) :
         /\ objs[n] = NoObject
         /\ SameClass(c)
         /\ \E error \in AfterCall(last_error) :
              LET made == __init__(c, args, error) IN
              /\ last_error' = made.last_error
              /\ objs' = IF made.raises THEN objs ELSE [objs EXCEPT ![n] = made.obj]
              /\ mret' = [(IF made.raises
                           THEN Raised_("new", "WindjammerError", made.msg, n)
                           ELSE Returned("new", n, NoObject))
                          EXCEPT !.asked = [cls |-> c, c |-> args]]
    /\ UNCHANGED _lib
    /\ OutsideSdk

\* The name of component i of the object n holds.
FieldOf(n, i) == Fields[objs[n].cls][i]

\* A setter that writes the first component whichever it is called for.
Assign_firstField(n, i, value) == [objs EXCEPT ![n].c[1] = c_float(value)]

\* self._handle.x = value
Assign(n, i, value) == [objs EXCEPT ![n].c[i] = c_float(value)]

\* n.x = value and the other property setters
Set ==
    /\ \E n \in Names : \E i \in 1..Len(objs[n].c) : \E value \in Scalars :
         /\ objs' = Assign(n, i, value)
         /\ mret' = [Returned("set", n, NoObject) EXCEPT
                        !.field = FieldOf(n, i), !.arg = value]
    /\ UNCHANGED <<_lib, last_error>>
    /\ OutsideSdk

\* n.x and the other property getters: return self._handle.x
Read ==
    /\ \E n \in Names : \E i \in 1..Len(objs[n].c) :
         mret' = [Returned("read", n, NoObject) EXCEPT
                    !.field = FieldOf(n, i), !.arg = objs[n].c[i]]
    /\ UNCHANGED <<_lib, last_error, objs>>
    /\ OutsideSdk

\* return Vec2(...), return Vec3(...) at the end of an operator applied to l
\* and to r (a variable) or k (a scalar)
Return(o, l, r, k, args) ==
    \E error \in AfterCall(last_error) :
       LET made == __init__(objs[l].cls, args, error) IN
       /\ last_error' = made.last_error
       /\ mret' = IF made.raises
                  THEN Raised_(o, "WindjammerError", made.msg, l)
                  ELSE [Returned(o, l, made.obj) EXCEPT !.other = r, !.arg = k]
       /\ UNCHANGED <<_lib, objs>>

\* Color defines no arithmetic operator.
Unsupported(o, l) ==
    /\ mret' = Raised_(o, "TypeError", "unsupported operand type(s)", l)
    /\ UNCHANGED <<_lib, last_error, objs>>

Components(o) == DOMAIN o.c

__add__(l, r) == [i \in Components(objs[l]) |-> objs[l].c[i] + objs[r].c[i]]

__sub___reversed(l, r) == [i \in Components(objs[l]) |-> objs[r].c[i] - objs[l].c[i]]

__sub__(l, r) == [i \in Components(objs[l]) |-> objs[l].c[i] - objs[r].c[i]]

__mul__(l, scalar) == [i \in Components(objs[l]) |-> objs[l].c[i] * scalar]

\* Components are numbers with an integer value; a quotient is taken only
\* where it has one.
Divides(scalar, l) ==
    \A i \in Components(objs[l]) : objs[l].c[i] % Whole(scalar) = 0

__truediv__(l, scalar) ==
    [i \in Components(objs[l]) |-> objs[l].c[i] \div scalar]

Bound(n) == objs[n] # NoObject

\* l + r
Add ==
    /\ \E l \in Names : \E r \in Names :
         /\ Bound(l) /\ Bound(r)
         /\ IF objs[l].cls = "Color" THEN Unsupported("add", l)
            ELSE Return("add", l, r, 0, __add__(l, r))
    /\ OutsideSdk

\* l - r
Sub ==
    /\ \E l \in Names : \E r \in Names :
         /\ Bound(l) /\ Bound(r)
         /\ IF objs[l].cls = "Color" THEN Unsupported("sub", l)
            ELSE Return("sub", l, r, 0, __sub__(l, r))
    /\ OutsideSdk

\* l * scalar
Mul ==
    /\ \E l \in Names : \E scalar \in Factors :
         /\ Bound(l)
         /\ IF objs[l].cls = "Color" THEN Unsupported("mul", l)
            ELSE Return("mul", l, "none", scalar, __mul__(l, scalar))
    /\ OutsideSdk

\* l / scalar
Div ==
    /\ \E l \in Names : \E scalar \in Factors :
         /\ Bound(l)
         /\ IF objs[l].cls = "Color" THEN Unsupported("div", l)
            ELSE IF scalar = 0
            THEN /\ mret' = Raised_("div", "ZeroDivisionError", "float division by zero", l)
                 /\ UNCHANGED <<_lib, last_error, objs>>
            ELSE /\ Divides(scalar, l)
                 /\ Return("div", l, "none", scalar, __truediv__(l, scalar))
    /\ OutsideSdk

\* isinstance(other, Vec2) and self.x == other.x and self.y == other.y
__eq__(l, r) ==
    /\ objs[l].cls = objs[r].cls
    /\ \A i \in Components(objs[l]) : objs[l].c[i] = objs[r].c[i]

\* l == r
Eq ==
    /\ \E l \in Names : \E r \in Names :
         /\ Bound(l) /\ Bound(r)
         /\ mret' = [Returned("eq", l, NoObject) EXCEPT
                        !.other = r, !.bool = BoolStr(__eq__(l, r))]
    /\ UNCHANGED <<_lib, last_error, objs>>
    /\ OutsideSdk

SdkNext ==
    \/ CheckError
    \/ GetVersion
    \/ Construct
    \/ Set
    \/ Read
    \/ Add
    \/ Sub
    \/ Mul
    \/ Div
    \/ Eq

\* The SDK with or without the native library.
SdkInit ==
    /\ FreshApp
    /\ WorldInit
    /\ SdkFresh
    /\ NoTransforms
    /\ _lib \in Libs

\* A program that works with the math types and the FFI layer.
SdkSpec == SdkInit /\ [][SdkNext]_vars

(***************************************************************************)
(* Transform (transform.py): an object with three attributes that refer to *)
(* Vec3 objects.  Objects are referred to by their place on the heap, so   *)
(* that two attributes can refer to one object.                            *)
(***************************************************************************)

OutsideTransform == UNCHANGED <<appVars, worldVars, objs>>

\* An allocator that hands out an object it already has when the contents
\* are equal.
Alloc_reusesEqual(h, obj) ==
    IF \E i \in DOMAIN h : h[i] = obj
    THEN [heap |-> h, ref |-> CHOOSE i \in DOMAIN h : h[i] = obj]
    ELSE [heap |-> Append(h, obj), ref |-> Len(h) + 1]

\* A constructor call makes a new object.
Alloc(h, obj) == [heap |-> Append(h, obj), ref |-> Len(h) + 1]

\* Vec3.zero(): Vec3(0.0, 0.0, 0.0)
zero == <<Whole(0), Whole(0), Whole(0)>>

\* Vec3.one(): Vec3(1.0, 1.0, 1.0)
one == <<Whole(1), Whole(1), Whole(1)>>

\* v = Vec3.zero() or v = Vec3.one(): the program constructs a vector of
\* its own.
HoldVec3 ==
    /\ held = NoRef
    /\ \E args \in {zero, one} : \E error \in AfterCall(last_error) :
         LET made == __init__("Vec3", args, error) IN
         /\ last_error' = made.last_error
         /\ IF made.raises
            THEN /\ mret' = Raised_("Vec3", "WindjammerError", made.msg, "v")
                 /\ UNCHANGED <<heap, held>>
            ELSE /\ heap' = Alloc(heap, made.obj).heap
                 /\ held' = Alloc(heap, made.obj).ref
                 /\ mret' = Returned("Vec3", "v", NoObject)
    /\ UNCHANGED <<_lib, trs>>
    /\ OutsideTransform

\* Transform.__init__ before its first line.
Entered == [heap |-> heap, last_error |-> last_error, raises |-> FALSE, msg |-> "", ref |-> NoRef]

\* `given or Vec3.zero()` (or Vec3.one()) after the lines before it led to
\* st: the object given (a Vec3 is always true), else a new one, for which
\* the engine, if there is one, leaves `error` pending.
OrDefault(st, given, default, error) ==
    IF st.raises THEN st
    ELSE IF given # NoRef THEN [st EXCEPT !.ref = given]
    ELSE LET made == __init__("Vec3", default, error) IN
         IF made.raises
         THEN [st EXCEPT !.last_error = made.last_error, !.raises = TRUE,
                         !.msg = made.msg, !.ref = NoRef]
         ELSE [heap |-> Alloc(st.heap, made.obj).heap, last_error |-> made.last_error,
               raises |-> FALSE, msg |-> "", ref |-> Alloc(st.heap, made.obj).ref]

\* The objects the program passes for the position: None, or its own Vec3.
\* It passes no rotation and no scale.
Given == {NoRef, held}

NotGiven == {NoRef}

\* t = Transform(position, rotation, scale), each argument None by default
NewTransform ==
    /\ \E t \in TransformNames : \E position \in Given : \E rotation \in NotGiven :
       \E scale \in NotGiven :
         /\ trs[t] = NoTransform
         /\ \E e1 \in AfterCall(last_error) :
              LET s1 == OrDefault(Entered, position, zero, e1) IN
              \E e2 \in AfterCall(s1.last_error) :
                 LET s2 == OrDefault(s1, rotation, zero, e2) IN
                 \E e3 \in AfterCall(s2.last_error) :
                    LET s3 == OrDefault(s2, scale, one, e3) IN
                    /\ last_error' = s3.last_error
                    /\ IF s3.raises
                       THEN /\ mret' = Raised_("Transform", "WindjammerError", s3.msg, t)
                            /\ UNCHANGED <<heap, trs>>
                       ELSE /\ heap' = s3.heap
                            /\ trs' = [trs EXCEPT ![t] =
                                  [position |-> s1.ref, rotation |-> s2.ref,
                                   scale |-> s3.ref,
                                   defaults |-> <<position, rotation, scale>>
                                                = <<NoRef, NoRef, NoRef>>]]
                            /\ mret' = Returned("Transform", t, NoObject)
    /\ UNCHANGED <<_lib, held>>
    /\ OutsideTransform

\* The components the program assigns in a vector of a Transform.
Assigned == {1}

\* t.position.x = value, and likewise for rotation and scale and y and z
SetAttribute ==
    /\ \E t \in TransformNames : \E a \in DOMAIN Attributes : \E i \in Assigned :
       \E value \in Scalars :
         /\ trs[t] # NoTransform
         /\ heap' = [heap EXCEPT ![trs[t][Attributes[a]]].c[i] = c_float(value)]
         /\ mret' = [Returned("set", t, NoObject) EXCEPT
                        !.field = Attributes[a], !.other = Fields["Vec3"][i],
                        !.arg = value]
    /\ UNCHANGED <<_lib, last_error, held, trs>>
    /\ OutsideTransform

TransformNext ==
    \/ HoldVec3
    \/ NewTransform
    \/ SetAttribute

\* A program that constructs Transforms and assigns to their vectors.
TransformSpec == SdkInit /\ [][TransformNext]_vars

(***************************************************************************)
(* Reading the log.                                                        *)
(***************************************************************************)

Rank(p) ==
    CASE p = "startup"  -> 1
      [] p = "update"   -> 2
      [] p = "shutdown" -> 3

\* Control is back in the program after the run() it invoked last.
RunDone == pc = "idle" /\ lastOp = "run"

IsCall(k, p, i) ==
    log[k].ev = "call" /\ log[k].phase = p /\ log[k].idx = i

IsEnd(k, p, i) ==
    log[k].ev \in {"return", "raise"} /\ log[k].phase = p /\ log[k].idx = i

\* System i of phase p was called and has returned or raised before entry k.
CompletedBefore(p, i, k) ==
    \E a \in 1..(k - 1) : \E b \in (a + 1)..(k - 1) :
        IsCall(a, p, i) /\ IsEnd(b, p, i)

\* System i of phase p is called and returns or raises after entry k.
ExecutedAfter(p, i, k) ==
    \E a \in (k + 1)..Len(log) : \E b \in (a + 1)..Len(log) :
        IsCall(a, p, i) /\ IsEnd(b, p, i)

CallsOf(p, i) == {k \in DOMAIN log : IsCall(k, p, i)}

EndsOf(p, i) == {k \in DOMAIN log : IsEnd(k, p, i)}

QuitBefore(k) == \E j \in 1..(k - 1) : log[j].ev = "quit"

Raised(p) == \E k \in DOMAIN log : log[k].ev = "raise" /\ log[k].phase = p

(***************************************************************************)
(* The claims.                                                             *)
(***************************************************************************)

\* C1: in every run(), when a system is called, every system of every earlier
\* phase that was registered when run() was invoked has been called and has
\* returned or raised, and nothing of a later phase has happened yet: startup
\* before update before shutdown.
C1_PhaseOrder ==
    \A k \in DOMAIN log :
        log[k].ev = "call" =>
            /\ \A q \in Phases :
                   Rank(q) < Rank(log[k].phase) =>
                       \A i \in 1..atRun[q] : CompletedBefore(q, i, k)
            /\ \A j \in 1..(k - 1) : Rank(log[j].phase) <= Rank(log[k].phase)

C1_Witness ==
    /\ RunDone
    /\ \A p \in Phases : atRun[p] >= 1 /\ CallsOf(p, 1) # {}

\* C2: within one phase the systems run in registration order: when the system
\* at position i of a list is called, it is the callable registered at that
\* position, and every system at an earlier position of that list has been
\* called and has returned or raised.
C2_RegistrationOrder ==
    \A k \in DOMAIN log :
        log[k].ev = "call" =>
            /\ log[k].idx \in 1..Len(PhaseList(log[k].phase))
            /\ log[k].fn = PhaseList(log[k].phase)[log[k].idx]
            /\ \A i \in 1..(log[k].idx - 1) :
                   CompletedBefore(log[k].phase, i, k)

C2_Witness ==
    /\ RunDone /\ runs = 2
    /\ \E p \in Phases :
           /\ atRun[p] >= 2
           /\ PhaseList(p)[1] # PhaseList(p)[2]
           /\ CallsOf(p, 2) # {}

\* C3: when run() has returned, every system that was registered behind a
\* system that raised, in the same list or in the list of a later phase, has
\* been executed after the raise.
C3_Isolation ==
    RunDone =>
        \A k \in DOMAIN log :
            log[k].ev = "raise" =>
                /\ \A i \in (log[k].idx + 1)..atRun[log[k].phase] :
                       ExecutedAfter(log[k].phase, i, k)
                /\ \A q \in Phases :
                       Rank(q) > Rank(log[k].phase) =>
                           \A i \in 1..atRun[q] : ExecutedAfter(q, i, k)

C3_Witness ==
    /\ RunDone
    /\ \E k \in DOMAIN log :
           /\ log[k].ev = "raise" /\ log[k].phase = "update"
           /\ log[k].idx < atRun["update"]
           /\ atRun["shutdown"] >= 1

\* C4: no system is called twice in one run(), and when run() has returned,
\* every system registered when it was invoked has been called exactly once
\* and has returned or raised exactly once; also in a run() where a system
\* raised, and also in a second run() on the same App.
C4_ExactlyOnce ==
    \A p \in Phases :
        /\ \A i \in 1..Len(PhaseList(p)) : Cardinality(CallsOf(p, i)) <= 1
        /\ RunDone =>
               \A i \in 1..atRun[p] :
                   /\ Cardinality(CallsOf(p, i)) = 1
                   /\ Cardinality(EndsOf(p, i)) = 1

C4_Witness ==
    /\ RunDone /\ runs = 2
    /\ \E p \in Phases : Raised(p)
    /\ \A p \in Phases : atRun[p] = 1

\* C5: an Exception raised by a system does not leave run(): when control is
\* back in the program after a run() in which systems raised, run() has
\* printed its last line, "Application finished", as the last thing it did.
C5_RunReturnsNormally ==
    (RunDone /\ \E p \in Phases : Raised(p)) =>
        log[Len(log)].ev = "finished"

C5_Witness ==
    /\ RunDone
    /\ \A p \in Phases : Raised(p)

\* C6: is_running() evaluated when a system is entered is true, for a system
\* of any phase, unless quit() was called earlier in that run().
C6_RunningInsideEverySystem ==
    \A k \in DOMAIN log :
        (log[k].ev = "call" /\ ~QuitBefore(k)) => log[k].running

C8_QuitIsCooperative ==
    \A k \in DOMAIN log :
        (log[k].ev = "quit" /\ log[k].phase = "update") =>
            /\ k < Len(log) =>
                   /\ log[k + 1].ev = "return"
                   /\ log[k + 1].idx = log[k].idx
            /\ \A i \in 1..log[k].idx :
                   \A a \in (k + 1)..Len(log) : ~IsCall(a, "update", i)
            /\ RunDone =>
                   /\ \A i \in (log[k].idx + 1)..atRun["update"] :
                          ExecutedAfter("update", i, k)
                   /\ \A i \in 1..atRun["shutdown"] :
                          ExecutedAfter("shutdown", i, k)

C8_Witness ==
    /\ RunDone
    /\ \E k \in DOMAIN log :
           /\ log[k].ev = "quit" /\ log[k].phase = "update"
           /\ log[k].idx < atRun["update"]
           /\ atRun["shutdown"] >= 1

\* C9: quit() called outside run() leaves the run-state false and the three
\* lists as they were, and a run() made after it executes every registered
\* system of every phase.
C9_QuitWhileIdle ==
    /\ [][Quit => (~_running' /\ Lists' = Lists)]_vars
    /\ [](lastOp = "quit" => ~_running)
    /\ []((RunDone /\ quitIdle) =>
              \A p \in Phases : \A i \in 1..atRun[p] : ExecutedAfter(p, i, 1))

C9_Witness ==
    /\ RunDone /\ quitIdle
    /\ \A p \in Phases : atRun[p] >= 1

\* C10: a newly constructed App has three empty lists and is not running.
C10_FreshApp ==
    lastOp = "new" =>
        /\ _systems = <<>>
        /\ _startup_systems = <<>>
        /\ _shutdown_systems = <<>>
        /\ ~_running

C10_Witness ==
    lastOp = "new" /\ Registered = 0 /\ AtTopLevel

\* What a registration step must do to list `l`, with `a` and `b` the two
\* other lists: one entry more, at the end, and nothing else of the App changed.
AppendsOne(l, a, b) ==
    /\ Len(l') = Len(l) + 1
    /\ SubSeq(l', 1, Len(l)) = l
    /\ l'[Len(l')] \in Callables
    /\ a' = a /\ b' = b
    /\ _running' = _running
    /\ ret' = "none"

\* C11: each of the five registration operations appends exactly one entry at
\* the end of the list of its own phase, leaves the two other lists and the
\* run-state as they were, and raises nothing.
C11_RegistrationAppendsOne ==
    [][ /\ System => AppendsOne(_systems, _startup_systems, _shutdown_systems)
        /\ AddSystem => AppendsOne(_systems, _startup_systems, _shutdown_systems)
        /\ Startup => AppendsOne(_startup_systems, _systems, _shutdown_systems)
        /\ AddStartupSystem =>
               AppendsOne(_startup_systems, _systems, _shutdown_systems)
        /\ Shutdown => AppendsOne(_shutdown_systems, _systems, _startup_systems)
      ]_vars

C11_Witness ==
    /\ lastOp = "add_startup_system"
    /\ Len(_startup_systems) = 2
    /\ _startup_systems[1] # _startup_systems[2]
    /\ Len(_shutdown_systems) = 1

\* C12: every phase has a programmatic registration operation, and a step of
\* it is a step of the decorator of that phase on the same callable: the
\* three lists and the run-state end up the same.
C12_AddIsDecorator ==
    [][ /\ AddSystem => \E f \in Callables : system(f)
        /\ AddStartupSystem => \E f \in Callables : startup(f)
        /\ AddShutdownSystem => \E f \in Callables : shutdown(f)
      ]_vars

\* C13: is_running() changes neither the run-state nor a list, returns the
\* run-state, and returns the same value again when it is called twice in a
\* row.
C13_IsRunningIsPure ==
    [][ IsRunning =>
            /\ UNCHANGED <<_systems, _startup_systems, _shutdown_systems, _running>>
            /\ ret' = BoolStr(_running)
            /\ ret \in {"True", "False"} => ret' = ret
      ]_vars

C13_Witness ==
    /\ ret = "True" /\ cur # NoSystem
    /\ Registered = 3

\* The raise entries of the log, in order.
Failures == SelectSeq(log, LAMBDA e : e.ev = "raise")

\* C14: every failure of a system produces exactly one diagnostic, and the
\* diagnostic tells the failure apart from the failure of any other system:
\* the failures of two different list entries have different diagnostics.
C14_DiagnosticIdentifiesSystem ==
    /\ Len(stderr) = Len(Failures)
    /\ \A j \in 1..Len(stderr) : \A k \in 1..Len(stderr) :
           (j <= Len(Failures) /\ k <= Len(Failures)) =>
               (<<Failures[j].phase, Failures[j].idx>>
                    # <<Failures[k].phase, Failures[k].idx>>
                => stderr[j] # stderr[k])

\* C15: every update pass advances the Time snapshot once, the frame counter
\* by one and the total by the delta, and no step of a system changes it.
C15_TimeAdvancesPerPass ==
    [][ /\ (pc = "update" /\ pc' = "shutdown") =>
               /\ time'.frame_count = time.frame_count + 1
               /\ time'.total_seconds = time.total_seconds + time.delta_seconds
        /\ cur # NoSystem => time' = time
      ]_vars

(***************************************************************************)
(* Claims about the World.                                                 *)
(***************************************************************************)

Live == {e \in issued : is_alive(e)}

SpawnedNow == wret.op = "spawn" /\ wret.status = "ok"

\* C17: no two live entities share an id (slot and generation): an issued id
\* is live exactly until its despawn and a slot holds at most one live
\* entity; spawn never returns an id it has returned before, and when it
\* reuses a slot every earlier entity of that slot was despawned and had a
\* smaller generation.
C17_IdUniqueness ==
    /\ [](\A a \in issued : is_alive(a) <=> a \notin despawned)
    /\ [](\A a, b \in Live : a.slot = b.slot => a = b)
    /\ [][(wret'.op = "spawn" /\ wret'.status = "ok") =>
            /\ wret'.id \notin issued
            /\ \A a \in issued :
                  a.slot = wret'.id.slot =>
                      a \in despawned /\ a.generation < wret'.id.generation]_vars

\* A spawn has reused a freed slot while another entity is live.
C17_Witness ==
    /\ SpawnedNow
    /\ wret.id.generation = MaxGen
    /\ Cardinality(Live) = 2

\* C18: an operation (get, insert, despawn) on an id that was despawned
\* before fails with InvalidHandle and changes neither the registry nor the
\* store, also when the slot of the id is occupied again.
C18_StaleHandleRejected ==
    [][(wret'.op \in {"get", "insert", "despawn"} /\ wret'.id \in despawned) =>
          /\ wret'.status = "InvalidHandle"
          /\ UNCHANGED <<slots, comps, issued, despawned>>]_vars

\* A second despawn of a stale id whose slot a later spawn has reused.
C18_Witness ==
    /\ wret.op = "despawn"
    /\ wret.status = "InvalidHandle"
    /\ wret.id \in despawned
    /\ \E b \in Live : b.slot = wret.id.slot
    /\ \E k \in Kinds : comps[k][wret.id.slot] # Empty

\* C19: a component is stored only for a slot that holds a live entity; the
\* step that despawns an entity empties its slot in every kind, and a get on
\* a despawned id yields no component.
C19_NoOrphanedComponents ==
    /\ [](\A k \in Kinds : \A s \in SlotIds :
            comps[k][s] # Empty => \E e \in Live : e.slot = s)
    /\ [][(wret'.op = "despawn" /\ wret'.status = "ok") =>
            \A k \in Kinds : comps'[k][wret'.id.slot] = Empty]_vars
    /\ [](wret.op = "get" /\ wret.id \in despawned => wret.value = Empty)

\* An entity that had a component of every kind has just been despawned
\* while another entity keeps its components.
C19_Witness ==
    /\ wret.op = "despawn"
    /\ wret.status = "ok"
    /\ \A k \in Kinds : comps[k][wret.id.slot] = Empty
    /\ \E e \in Live : \A k \in Kinds : comps[k][e.slot] # Empty

(***************************************************************************)
(* Claims about the FFI layer and the math types.                          *)
(***************************************************************************)

\* C16: with the native library loaded, a _check_error() that finds an error
\* message pending raises WindjammerError with that message and clears it;
\* one that finds none returns and changes nothing; right after any
\* _check_error() nothing is pending, so a second one does not raise.
C16_CheckErrorRaisesOnce ==
    /\ [][(_lib = "native" /\ mret'.op = "_check_error") =>
            IF last_error \in Messages
            THEN /\ mret'.exc = "WindjammerError"
                 /\ mret'.msg = last_error
                 /\ last_error' = NoError
                 /\ UNCHANGED objs
            ELSE /\ mret'.exc = "none"
                 /\ UNCHANGED <<last_error, objs>>]_vars
    /\ []((_lib = "native" /\ mret.op = "_check_error") => last_error \notin Messages)

\* _check_error() has raised an error that an unchecked engine call left.
C16_Witness ==
    /\ _lib = "native"
    /\ mret.op = "_check_error"
    /\ mret.exc = "WindjammerError"
    /\ mret.msg = "out of memory"
    /\ last_error = NoError
    /\ \A n \in Names : Bound(n)

\* C20: no operation of the SDK changes the components of a math object
\* that has been constructed.
C20_ImmutableByValue ==
    [][\A n \in Names : Bound(n) => objs'[n] = objs[n]]_vars

\* The position of the component called f in its class.
IndexOf(c, f) == CHOOSE i \in 1..Len(Fields[c]) : Fields[c][i] = f

\* C21 as stated: after a setter the component reads as the value that was
\* assigned.
C21_SetterStoresAssignedValue ==
    (mret.op = "set") =>
        objs[mret.target].c[IndexOf(objs[mret.target].cls, mret.field)] = mret.arg

\* C21, amended: a setter changes the one component it names, of the one
\* object it is called on, to the single-precision value of what was
\* assigned, which is the assigned value when single precision holds it and
\* the nearest value it holds otherwise; a following read returns what is
\* stored.
C21_SetterStoresSinglePrecision ==
    /\ [][(mret'.op = "set") =>
            LET n == mret'.target
                i == IndexOf(objs[n].cls, mret'.field)
                v == objs'[n].c[i]
            IN  /\ Exact(v)
                /\ v - mret'.arg \in {0, 1, -1}
                /\ Exact(mret'.arg) => v = mret'.arg
                /\ \A j \in Components(objs[n]) \ {i} : objs'[n].c[j] = objs[n].c[j]
                /\ objs'[n].cls = objs[n].cls
                /\ \A m \in Names \ {n} : objs'[m] = objs[m]]_vars
    /\ [][(mret.op = "set" /\ mret'.op = "read" /\ mret'.target = mret.target
           /\ mret'.field = mret.field) =>
            /\ mret'.arg = objs[mret.target].c[IndexOf(objs[mret.target].cls, mret.field)]
            /\ Exact(mret.arg) => mret'.arg = mret.arg]_vars

\* The alpha of a Color has been set to another value while a second Color
\* is held.
C21_Witness ==
    /\ mret.op = "set"
    /\ mret.field = "a"
    /\ mret.arg = Whole(0)
    /\ objs[mret.target].c = <<Whole(1), Whole(1), Whole(1), Whole(0)>>
    /\ \A n \in Names : Bound(n)

\* C22: on vectors with integer-valued components, + and - and * by an
\* integer scalar give the vector of the component sums, differences and
\* products, and == is true exactly when every component is equal.
C22_Componentwise ==
    [][LET l == mret'.target
           r == mret'.other
           k == mret'.arg
           v == mret'.value
       IN  /\ (mret'.op \in {"add", "sub", "mul"} /\ mret'.exc = "none") =>
                 /\ v.cls = objs[l].cls
                 /\ DOMAIN v.c = Components(objs[l])
                 /\ UNCHANGED objs
           /\ (mret'.op = "add" /\ mret'.exc = "none") =>
                 \A i \in DOMAIN v.c : v.c[i] = objs[l].c[i] + objs[r].c[i]
           /\ (mret'.op = "sub" /\ mret'.exc = "none") =>
                 \A i \in DOMAIN v.c : v.c[i] = objs[l].c[i] - objs[r].c[i]
           /\ (mret'.op = "mul" /\ mret'.exc = "none") =>
                 \A i \in DOMAIN v.c : v.c[i] = k * objs[l].c[i]
           /\ (mret'.op = "eq") =>
                 (mret'.bool = "True" <=> objs[l].c = objs[r].c)]_vars

\* A difference with a negative component has been computed from two
\* different Vec3.
C22_Witness ==
    /\ mret.op = "sub"
    /\ mret.exc = "none"
    /\ mret.target # mret.other
    /\ mret.value = [cls |-> "Vec3", c |-> <<Whole(-1), Whole(1), Whole(0)>>]

MockMode == _lib = "None"

\* C28 as stated, for the constructors: in mock mode the object constructed
\* has exactly the components passed in.
C28_MockKeepsComponents ==
    (MockMode /\ mret.op = "new") => objs[mret.target] = mret.asked

\* C28, amended: in mock mode nothing is ever pending in the engine and no
\* call raises WindjammerError, get_version() returns (0, 1, 0), and every
\* constructor call succeeds with an object of the class asked for whose
\* components are the arguments in single precision: the argument itself
\* where single precision holds it, else the nearest value it holds.
C28_MockNeverReachesEngine ==
    /\ [](MockMode =>
            /\ last_error = NoError
            /\ mret.exc # "WindjammerError"
            /\ mret.op = "_check_error" => mret.exc = "none"
            /\ mret.op = "get_version" => mret.version = <<0, 1, 0>>
            /\ mret.op = "new" => mret.exc = "none")
    /\ [][(MockMode /\ mret'.op = "new") =>
            LET made == objs'[mret'.target]
                asked == mret'.asked
            IN  /\ made.cls = asked.cls
                /\ DOMAIN made.c = DOMAIN asked.c
                /\ \A i \in DOMAIN asked.c :
                      /\ Exact(made.c[i])
                      /\ made.c[i] - asked.c[i] \in {0, 1, -1}
                      /\ Exact(asked.c[i]) => made.c[i] = asked.c[i]
                /\ \A m \in Names \ {mret'.target} : objs'[m] = objs[m]]_vars

\* A Vec3 has been constructed in mock mode from an argument that single
\* precision cannot hold.
C28_Witness ==
    /\ MockMode
    /\ mret.op = "new"
    /\ mret.asked = [cls |-> "Vec3", c |-> <<Whole(1), Whole(0) + 1, Whole(0)>>]
    /\ objs[mret.target].c # mret.asked.c

(***************************************************************************)
(* Claims about Transform.                                                 *)
(***************************************************************************)

\* The Vec3 that attribute a of the Transform held by t refers to.
VecOf(h, t, a) == h[trs[t][a]].c

AttributeNames == {Attributes[a] : a \in DOMAIN Attributes}

\* C29: a Transform constructed without arguments has position (0,0,0),
\* rotation (0,0,0) and scale (1,1,1), in three objects that did not exist
\* before and are different from each other; assigning a component of a
\* vector of such a Transform changes no vector of another Transform and no
\* other vector of the same Transform.
C29_DefaultTransformIsFresh ==
    /\ [][(mret'.op = "Transform" /\ mret'.exc = "none"
           /\ trs'[mret'.target].defaults) =>
            LET t == trs'[mret'.target] IN
            /\ heap'[t.position].c = <<Whole(0), Whole(0), Whole(0)>>
            /\ heap'[t.rotation].c = <<Whole(0), Whole(0), Whole(0)>>
            /\ heap'[t.scale].c = <<Whole(1), Whole(1), Whole(1)>>
            /\ Cardinality({t.position, t.rotation, t.scale}) = Len(Attributes)
            /\ {t.position, t.rotation, t.scale} \cap DOMAIN heap = {}
            /\ \A r \in DOMAIN heap : heap'[r] = heap[r]]_vars
    /\ [][(mret'.op = "set" /\ trs[mret'.target].defaults) =>
            \A u \in TransformNames : \A a \in AttributeNames :
               (trs[u] # NoTransform /\ <<u, a>> # <<mret'.target, mret'.field>>) =>
                   VecOf(heap', u, a) = VecOf(heap, u, a)]_vars

\* Two Transforms were constructed without arguments and the scale of one
\* of them has been changed.
C29_Witness ==
    /\ mret.op = "set"
    /\ mret.target = "t"
    /\ mret.field = "scale"
    /\ trs["t"].defaults /\ trs["u"].defaults
    /\ VecOf(heap, "t", "scale") = <<Whole(0), Whole(1), Whole(1)>>
    /\ VecOf(heap, "u", "scale") = <<Whole(1), Whole(1), Whole(1)>>
    /\ VecOf(heap, "t", "position") = <<Whole(1), Whole(0), Whole(0)>>

(***************************************************************************)
(* Claims about registration while run() is executing.                     *)
(***************************************************************************)

Registrations == {k \in DOMAIN log : log[k].ev = "register"}

\* The registration logged at k was made into a later phase than the one
\* that was executing, into the same one, or into an earlier one.
IntoLater(k) == Rank(log[k].into) > Rank(log[k].phase)

IntoSame(k) == log[k].into = log[k].phase

IntoEarlier(k) == Rank(log[k].into) < Rank(log[k].phase)

\* The system registered at k is called, as the callable that was registered
\* and once, after every system before it in its list has returned or raised.
CalledInTurn(k) ==
    /\ Cardinality(CallsOf(log[k].into, log[k].at)) = 1
    /\ \A c \in CallsOf(log[k].into, log[k].at) :
          /\ c > k
          /\ log[c].fn = log[k].fn
          /\ \A i \in 1..(log[k].at - 1) : CompletedBefore(log[k].into, i, c)

\* C23: run() takes no snapshot of the lists: a loop of run() is left only
\* when every system of the list as it is then, the ones that systems of this
\* run() registered included, has been called; and when a system is called,
\* it is the item the list holds at that moment.
C23_NoSnapshot ==
    /\ [][(pc \in Phases /\ pc' # pc) =>
            \A i \in 1..Len(PhaseList(pc)) : CallsOf(pc, i) # {}]_vars
    /\ [][(Len(log') > Len(log) /\ log'[Len(log')].ev = "call") =>
            /\ log'[Len(log')].idx = it + 1
            /\ log'[Len(log')].fn = PhaseList(pc)[it + 1]]_vars

\* A startup system registered an update system and an update system a
\* shutdown system, and both were called.
C23_Witness ==
    /\ RunDone
    /\ atRun["update"] = 0 /\ atRun["shutdown"] = 0
    /\ CallsOf("update", 1) # {}
    /\ CallsOf("shutdown", 1) # {}

\* C24: a run() that has been entered finishes: it prints "Application
\* finished" and control is back in the program.
C24_RunTerminates ==
    (pc \in Phases) ~>
        (pc = "idle" /\ log # <<>> /\ log[Len(log)].ev = "finished")

\* A run() in which a system registered a system and a system raised has
\* returned.
C24_Witness ==
    /\ RunDone
    /\ log # <<>> /\ log[Len(log)].ev = "finished"
    /\ Registrations # {}
    /\ \E p \in Phases : Raised(p)

\* C25: when run() has returned, a system that a system of this run()
\* registered into the list of a later phase has been called in that phase,
\* once, after all systems before it in that list; one registered into the
\* list of a phase already over has not been called.
C25_InterleavedRegistration ==
    RunDone =>
        \A k \in Registrations :
            /\ IntoLater(k) => CalledInTurn(k)
            /\ IntoEarlier(k) => CallsOf(log[k].into, log[k].at) = {}

\* A startup system registered a shutdown system behind one registered
\* before run(), and a later system registered a startup system.
C25_Witness ==
    /\ RunDone
    /\ \E k \in Registrations :
          /\ log[k].phase = "startup" /\ log[k].into = "shutdown"
          /\ log[k].at > atRun["shutdown"] /\ atRun["shutdown"] > 0
    /\ \E k \in Registrations : IntoEarlier(k)

\* C26: a system registered into the list of the phase that is executing is
\* called later in the same pass, after every system already in the list;
\* right after such a registration the loop has another item, so the pass is
\* not over.
C26_SamePhaseRegistration ==
    /\ (log # <<>> /\ log[Len(log)].ev = "register" /\ IntoSame(Len(log))) =>
           /\ pc = log[Len(log)].into
           /\ LoopContinues(pc)
    /\ RunDone => \A k \in Registrations : IntoSame(k) => CalledInTurn(k)
    /\ \A k \in Registrations :
          IntoSame(k) =>
              \A j \in (k + 1)..Len(log) :
                  (CallsOf(log[k].into, log[k].at) \cap 1..j = {}) =>
                      log[j].phase = log[k].phase

\* An update system registered an update system, which registered another
\* one: the pass grew twice.
C26_Witness ==
    /\ RunDone
    /\ atRun["update"] = 1
    /\ \E k1 \in Registrations : \E k2 \in Registrations :
          /\ k1 < k2
          /\ log[k1].phase = "update" /\ IntoSame(k1) /\ IntoSame(k2)
          /\ log[k2].idx = log[k1].at
    /\ \E k \in Registrations :
          /\ log[k].at = MaxRegistering
          /\ CallsOf(log[k].into, MaxRegistering) # {}

IsPrefix(a, b) == Len(a) <= Len(b) /\ SubSeq(b, 1, Len(a)) = a

\* C27: on one App every list only grows at its end: each step that is not
\* the construction of a new App leaves every list a prefix of what it
\* becomes, and the steps of run(), quit() and is_running() leave the lists
\* as they are.
C27_AppendOnly ==
    [][(lastOp' # "new") =>
          /\ \A l \in DOMAIN Lists : IsPrefix(Lists[l], Lists'[l])
          /\ lastOp' \in {"run", "quit", "is_running"} => UNCHANGED Lists]_vars

\* After registrations, a run(), a quit() and a second run() the lists are
\* what was registered.
C27_Witness ==
    /\ RunDone /\ runs = MaxRuns
    /\ quitIdle
    /\ Registered = MaxSystems
    /\ \A p \in Phases : atRun[p] = Len(PhaseList(p))

====
